---- MODULE Spec2Model ----
(***************************************************************************)
(* The verification API of id-verification-system: the Express handlers of *)
(* VerificationController on top of InnovatricsService, the axios gateway   *)
(* to the Innovatrics provider.                                            *)
(*                                                                         *)
(* A request occupies a slot from its arrival until its response is read.  *)
(* Every handler is an async function: it runs without interruption up to  *)
(* the next awaited provider call, so one action is one such segment (the  *)
(* provider call together with its outcome), and segments of different     *)
(* requests interleave freely.  The program keeps no state between         *)
(* requests; the provider does.                                            *)
(***************************************************************************)
EXTENDS Integers, Sequences, FiniteSets, TLC

\* ---------------------------------------------------------------- bounds
MaxInFlight == 2                      \* requests being handled at one time
Slots == 1..MaxInFlight
Customers == {"c1", "c2"}             \* customer ids the provider assigns, and clients name
FaceIds == {"f1", "f2"}               \* face ids the provider assigns
ChallengeIds == {"ch1", "ch2"}        \* challenge ids the provider assigns, and clients supply
Scores == {0, 1}                      \* the ends of the provider's 0-1 similarity range
DocStatuses == {"verified", "not_verified", "unknown"}
\* the provider's liveness status is any string: two the program names, and one
\* it does not
LiveStatuses == {"live", "not_live", "PENDING_REVIEW"}
Nobody == "nobody"

\* JavaScript's undefined, and the falsy test the handlers apply to body fields
Absent == "absent"
Truthy(v) == v # Absent /\ v # ""

VARIABLES
    reqs,        \* slot -> the request in it: its input, position, locals, calls, response
    customers,   \* provider side: the customer ids POST /customers has handed out
    watched,     \* the subject whose history is observed (Nobody: none, requests overlap)
    hist         \* the watched subject's history: what the API answered for it so far

vars == <<reqs, customers, watched, hist>>

\* ------------------------------------------------------ provider outcomes
\* What an axios call ends with: a response body, or a rejection.
Ok(data) == [ok |-> TRUE, data |-> data]
\* A rejection is axios's error: its own message, and the message of the
\* provider's error body when a response came (body: empty, or that one text).
Failed == [ok |-> FALSE, message |-> "Network Error", body |-> {}]
TimedOut == [ok |-> FALSE, message |-> "timeout of 60000ms exceeded", body |-> {}]
Rejected(text) ==
    [ok |-> FALSE, message |-> "Request failed with status code 400", body |-> {text}]
\* What the provider's error bodies say
ProviderTexts == {"", "invalid image", "face not found"}
Failures == {Failed, TimedOut} \cup {Rejected(text) : text \in ProviderTexts}
\* How a failed call ended: without a response, by the deadline, or with the
\* provider's error response
FailureKind(out) ==
    IF out.body # {} THEN "rejected"
    ELSE IF out = TimedOut THEN "timeout" ELSE "transport"

\* ------------------------------------------------------ InnovatricsService
\* Each method is one axios call in try/catch: the provider's body on success,
\* a new Error with the method's prefix on failure.
Return(value) == [threw |-> FALSE, value |-> value]
\* error.response?.data?.message || error.message
ErrorText(out) ==
    IF \E text \in out.body : Truthy(text)
    THEN CHOOSE text \in out.body : Truthy(text)
    ELSE out.message
Throw(prefix, out) == [threw |-> TRUE, message |-> <<prefix, ErrorText(out)>>]

Service(prefix, out) == IF out.ok THEN Return(out.data) ELSE Throw(prefix, out)

Svc_createCustomer(out) == Service("Failed to create customer", out)
Svc_detectFace(out) == Service("Failed to detect face", out)
Svc_compareFaces(out) == Service("Failed to compare faces", out)
Svc_checkFaceMask(out) == Service("Failed to check face mask", out)
Svc_createLivenessChallenge(out) == Service("Failed to create liveness challenge", out)
Svc_submitLivenessData(out) == Service("Failed to submit liveness data", out)
Svc_deleteLivenessData(out) == Service("Failed to delete liveness data", out)
Svc_verifyDocument(out) == Service("Failed to verify document", out)
Svc_deleteSelfie(out) == Service("Failed to delete selfie", out)
Svc_uploadSelfie(out) == Service("Failed to upload selfie", out)
Svc_getSelfie(out) == Service("Failed to get selfie", out)

\* --------------------------------------------------------- ResponseHandler
\* The three ways a handler answers, with the arguments it passes.
Success(data, message) == [handler |-> "success", data |-> data, message |-> message]
ValidationError(errors) == [handler |-> "validationError", errors |-> errors]
Error(message, code, detail) ==
    [handler |-> "error", message |-> message, code |-> code, detail |-> detail]
\* The JSON envelope the client receives.  In a production configuration the
\* error envelope carries the handler's message only; otherwise also the detail
\* it was given, as the error field.
Envelope(resp, production) ==
    CASE resp.handler = "success" ->
            [success |-> TRUE, data |-> resp.data, message |-> resp.message]
      [] resp.handler = "error" ->
            IF production
            THEN [success |-> FALSE, message |-> resp.message]
            ELSE [success |-> FALSE, message |-> resp.message, error |-> resp.detail]
      [] OTHER -> [success |-> FALSE, errors |-> resp.errors]

\* ---------------------------------------------------------------- requests
Idle == [op |-> "idle"]
IsIdle(s) == reqs[s].op = "idle"
Busy(s) == ~IsIdle(s) /\ reqs[s].pc # "done"
Done(s) == ~IsIdle(s) /\ reqs[s].pc = "done"

\* A request that has answered: the calls it made and the response it sent.
Answer(r, calls, resp) == [r EXCEPT !.pc = "done", !.calls = calls, !.resp = resp]
\* A request suspended at an await, with its locals.
Await(r, pc, calls, loc) == [r EXCEPT !.pc = pc, !.calls = calls, !.loc = loc]

\* res before the handler has answered
NoResponse == [handler |-> "none"]
NewRequest(op, cid, body) ==
    [op |-> op, cid |-> cid, body |-> body, pc |-> "start",
     loc |-> Absent, calls |-> <<>>, resp |-> NoResponse]

\* ------------------------------------------------------------------ routes
\* The validation chains of express-validator: the messages of the rules a
\* request breaks.  A chain keeps what it finds in its own contexts of the
\* request, which only validationResult(req) reads; the program never calls it.
IsNonEmptyString(v) == v # Absent /\ v # ""
Optional(v, ok) == v = Absent \/ ok
Violations(rules) ==
    LET broken == SelectSeq(rules, LAMBDA rule : ~rule[1])
    IN [i \in DOMAIN broken |-> broken[i][2]]
DocumentTypes ==
    {"passport", "id_card", "driver_license", "residence_permit", "visa", "other"}
ChallengeTypes == {"passive", "motion", "expression"}

validateCreateCustomer(body) ==
    Violations(<<
        <<IsNonEmptyString(body.userId),
          "userId must be a non-empty string with max 100 characters">> >>)
validateDocumentVerification(cid, body) ==
    Violations(<<
        <<IsNonEmptyString(cid), "customerId must be a valid string">>,
        <<IsNonEmptyString(body.frontImage),
          "frontImage is required and must be a non-empty string">>,
        <<Optional(body.backImage, IsNonEmptyString(body.backImage)),
          "backImage must be a non-empty string if provided">>,
        <<Optional(body.documentType, body.documentType \in DocumentTypes),
          "documentType must be one of: passport, id_card, driver_license, residence_permit, visa, other">> >>)
validateLivenessCheck(cid, body) ==
    Violations(<<
        <<IsNonEmptyString(cid), "customerId must be a valid string">>,
        <<IsNonEmptyString(body.image), "image is required">>,
        <<Optional(body.challengeType, body.challengeType \in ChallengeTypes),
          "challengeType must be one of: passive, motion, expression if provided">> >>)
validateFaceDetection(cid, body) ==
    Violations(<<
        <<IsNonEmptyString(cid), "customerId must be a valid string">>,
        <<IsNonEmptyString(body.image),
          "image is required and must be a non-empty string">> >>)
validateFaceComparison(cid, body) ==
    Violations(<<
        <<IsNonEmptyString(cid), "customerId must be a valid string">>,
        <<IsNonEmptyString(body.probeFaceId), "probeFaceId is required">>,
        <<Truthy(body.referenceFace) \/ Truthy(body.referenceFaceTemplate),
          "Either referenceFace or referenceFaceTemplate is required">> >>)
validateGetCustomerStatus(cid) ==
    Violations(<< <<IsNonEmptyString(cid), "customerId must be a valid string">> >>)
validateDeleteCustomer(cid) ==
    Violations(<< <<IsNonEmptyString(cid), "customerId must be a valid string">> >>)

\* handleValidationErrors reads req.validationErrors, a property that nothing
\* sets, so errors is always the empty array and the next handler always runs.
handleValidationErrors(r, next) ==
    LET errors == IF "validationErrors" \in DOMAIN r THEN r.validationErrors ELSE <<>>
    IN IF Len(errors) > 0
       THEN Answer(r, <<>>, [handler |-> "json", code |-> 400,
                             message |-> "Validation failed", errors |-> errors])
       ELSE next

\* A request may arrive in a free slot; while a subject is watched, requests
\* are handled one at a time.
CanArrive(s) ==
    /\ IsIdle(s)
    /\ watched # Nobody => \A t \in Slots : IsIdle(t)

\* ------------------------------------------------------------ the observer
\* What the API has answered for the watched subject since its start: the
\* latest successful result of each stage (liveness and similarity: the empty
\* set, or the one latest result), whether a document was verified for it more
\* than once, the faces detected for it, and whether its deletion has been
\* answered with success.
EmptyHist ==
    [started |-> FALSE, terminated |-> FALSE, document |-> Absent, resubmitted |-> FALSE,
     liveness |-> {}, similarity |-> {}, faces |-> {}]

Record(h, r) ==
    IF watched = Nobody \/ r.pc # "done" \/ r.resp.handler # "success" THEN h
    ELSE IF r.op = "createCustomer"
    THEN (IF r.resp.data.customerId = watched
          THEN [EmptyHist EXCEPT !.started = TRUE] ELSE h)
    ELSE IF r.cid # watched THEN h
    ELSE CASE r.op = "uploadDocument" ->
                [h EXCEPT !.document = r.resp.data.documentResult.verificationStatus,
                          !.resubmitted = (h.document # Absent)]
           [] r.op = "performLivenessCheck" ->
                [h EXCEPT !.liveness = {[live |-> r.resp.data.livenessResult.status = "live",
                                         auto |-> ~Truthy(r.body.challengeId)]}]
           [] r.op = "performFaceDetection" ->
                [h EXCEPT !.faces = @ \cup {r.resp.data.faceResult.id}]
           [] r.op = "compareFaces" ->
                [h EXCEPT !.similarity = {[score |-> r.resp.data.similarityResult.score,
                                           probe |-> r.body.probeFaceId]}]
           [] r.op = "deleteCustomer" -> [h EXCEPT !.terminated = TRUE]
           [] OTHER -> h

\* The slot takes the request's new state; an answer is observed.
Finish(s, r) ==
    /\ reqs' = [reqs EXCEPT ![s] = r]
    /\ hist' = Record(hist, r)

\* A provider call as the request's log keeps it: the endpoint, what was
\* sent, and how it ended.
Call(endpoint, args, out) == [endpoint |-> endpoint, args |-> args, out |-> out]

\* ---------------------------------------------- VerificationController
\* createCustomer as it would be without its check of userId
Ctl_createCustomer_Unchecked(r, out) ==
    LET calls == <<Call("POST /customers", Absent, out)>>
        res == Svc_createCustomer(out)
    IN IF res.threw
       THEN Answer(r, calls, Error("Failed to create customer", 500, res.message))
       ELSE Answer(r, calls,
                   Success([customerId |-> res.value.id, status |-> "created",
                            userId |-> r.body.userId],
                           "Customer created successfully"))

\* createCustomer (createdAt, the clock's reading, is left out of the data)
Ctl_createCustomer(r, out) ==
    IF ~Truthy(r.body.userId)
    THEN Answer(r, <<>>, ValidationError(<<"userId is required">>))
    ELSE LET calls == <<Call("POST /customers", Absent, out)>>
             res == Svc_createCustomer(out)
         IN IF res.threw
            THEN Answer(r, calls, Error("Failed to create customer", 500, res.message))
            ELSE Answer(r, calls,
                        Success([customerId |-> res.value.id, status |-> "created",
                                 userId |-> r.body.userId],
                                "Customer created successfully"))

\* uploadDocument up to the first await of verifyDocument: POST /documents
Ctl_uploadDocument(r, out) ==
    IF ~Truthy(r.body.frontImage)
    THEN Answer(r, <<>>, ValidationError(<<"frontImage is required">>))
    ELSE LET calls == <<Call("POST /documents",
                             [frontImage |-> r.body.frontImage,
                              backImage |-> r.body.backImage,
                              documentType |-> IF Truthy(r.body.documentType)
                                               THEN r.body.documentType ELSE "id_card"],
                             out)>>
             res == Svc_verifyDocument(out)
         IN IF res.threw
            THEN Answer(r, calls, Error("Failed to verify document", 500, res.message))
            ELSE Await(r, "verify", calls, [documentId |-> res.value.id])

\* uploadDocument's second part as it would be if a failed verification were
\* answered as a document of unknown status
Ctl_uploadDocumentVerify_Swallow(r, out) ==
    LET calls == Append(r.calls, Call("POST /documents/:id/verify", r.loc.documentId, out))
        res == Svc_verifyDocument(out)
    IN Answer(r, calls,
              Success([customerId |-> r.cid,
                       documentResult |-> IF res.threw THEN [verificationStatus |-> "unknown"]
                                          ELSE res.value,
                       status |-> "document_verified"],
                      "Document verified successfully"))

\* uploadDocument from the second await: POST /documents/:id/verify
Ctl_uploadDocumentVerify(r, out) ==
    LET calls == Append(r.calls, Call("POST /documents/:id/verify", r.loc.documentId, out))
        res == Svc_verifyDocument(out)
    IN IF res.threw
       THEN Answer(r, calls, Error("Failed to verify document", 500, res.message))
       ELSE Answer(r, calls,
                   Success([customerId |-> r.cid, documentResult |-> res.value,
                            status |-> "document_verified"],
                           "Document verified successfully"))

\* performLivenessCheck's submission as it would be if a failed submission were
\* answered as a liveness result of unknown status
Ctl_submitLiveness_Swallow(r, finalChallengeId, sofar, out) ==
    LET calls == Append(sofar, Call("PUT /customers/:id/liveness",
                                    [customerId |-> r.cid, image |-> r.body.image,
                                     challengeId |-> finalChallengeId],
                                    out))
        res == Svc_submitLivenessData(out)
    IN Answer(r, calls,
              Success([customerId |-> r.cid,
                       livenessResult |-> IF res.threw THEN [status |-> "unknown"]
                                          ELSE res.value,
                       status |-> "liveness_checked"],
                      "Liveness check performed successfully"))

\* performLivenessCheck's submission as it would be if a failed submission were
\* issued again (once)
Ctl_submitLiveness_Retry(r, finalChallengeId, sofar, out) ==
    LET calls == Append(sofar, Call("PUT /customers/:id/liveness",
                                    [customerId |-> r.cid, image |-> r.body.image,
                                     challengeId |-> finalChallengeId],
                                    out))
        res == Svc_submitLivenessData(out)
    IN IF res.threw
       THEN IF Cardinality({i \in DOMAIN calls :
                               calls[i].endpoint = "PUT /customers/:id/liveness"}) < 2
            THEN Await(r, "submit", calls, [finalChallengeId |-> finalChallengeId])
            ELSE Answer(r, calls,
                        Error("Failed to perform liveness check", 500, res.message))
       ELSE Answer(r, calls,
                   Success([customerId |-> r.cid, livenessResult |-> res.value,
                            status |-> "liveness_checked"],
                           "Liveness check performed successfully"))

\* performLivenessCheck from submitLivenessData on, with the challenge id resolved
Ctl_submitLiveness(r, finalChallengeId, sofar, out) ==
    LET calls == Append(sofar, Call("PUT /customers/:id/liveness",
                                    [customerId |-> r.cid, image |-> r.body.image,
                                     challengeId |-> finalChallengeId],
                                    out))
        res == Svc_submitLivenessData(out)
    IN IF res.threw
       THEN Answer(r, calls, Error("Failed to perform liveness check", 500, res.message))
       ELSE Answer(r, calls,
                   Success([customerId |-> r.cid, livenessResult |-> res.value,
                            status |-> "liveness_checked"],
                           "Liveness check performed successfully"))

\* performLivenessCheck as it would be if the handler submitted a challenge id
\* kept from an earlier invocation instead of the one it has just created
Ctl_performLivenessCheck_Stale(r, out) ==
    IF ~Truthy(r.body.image)
    THEN Answer(r, <<>>, ValidationError(<<"image is required">>))
    ELSE IF Truthy(r.body.challengeId)
    THEN Ctl_submitLiveness(r, r.body.challengeId, <<>>, out)
    ELSE LET calls == <<Call("PUT /customers/:id/liveness/records/challenge",
                             [customerId |-> r.cid,
                              challengeType |-> IF Truthy(r.body.challengeType)
                                                THEN r.body.challengeType ELSE "passive"],
                             out)>>
             res == Svc_createLivenessChallenge(out)
         IN IF res.threw
            THEN Answer(r, calls,
                        Error("Failed to perform liveness check", 500, res.message))
            ELSE Await(r, "submit", calls, [finalChallengeId |-> "ch1"])

\* performLivenessCheck as it would be if a failed creation of the challenge
\* were ignored and the submission made all the same
Ctl_performLivenessCheck_Unguarded(r, out) ==
    IF ~Truthy(r.body.image)
    THEN Answer(r, <<>>, ValidationError(<<"image is required">>))
    ELSE IF Truthy(r.body.challengeId)
    THEN Ctl_submitLiveness(r, r.body.challengeId, <<>>, out)
    ELSE LET calls == <<Call("PUT /customers/:id/liveness/records/challenge",
                             [customerId |-> r.cid,
                              challengeType |-> IF Truthy(r.body.challengeType)
                                                THEN r.body.challengeType ELSE "passive"],
                             out)>>
             res == Svc_createLivenessChallenge(out)
         IN Await(r, "submit", calls,
                  [finalChallengeId |-> IF res.threw THEN Absent
                                        ELSE res.value.challengeId])

\* performLivenessCheck as it would be if it always asked for a passive challenge
Ctl_performLivenessCheck_Passive(r, out) ==
    IF ~Truthy(r.body.image)
    THEN Answer(r, <<>>, ValidationError(<<"image is required">>))
    ELSE IF Truthy(r.body.challengeId)
    THEN Ctl_submitLiveness(r, r.body.challengeId, <<>>, out)
    ELSE LET calls == <<Call("PUT /customers/:id/liveness/records/challenge",
                             [customerId |-> r.cid, challengeType |-> "passive"],
                             out)>>
             res == Svc_createLivenessChallenge(out)
         IN IF res.threw
            THEN Answer(r, calls,
                        Error("Failed to perform liveness check", 500, res.message))
            ELSE Await(r, "submit", calls, [finalChallengeId |-> res.value.challengeId])

\* performLivenessCheck up to its first await: the submission when the caller
\* gave a challengeId, else the creation of a challenge
Ctl_performLivenessCheck(r, out) ==
    IF ~Truthy(r.body.image)
    THEN Answer(r, <<>>, ValidationError(<<"image is required">>))
    ELSE IF Truthy(r.body.challengeId)
    THEN Ctl_submitLiveness(r, r.body.challengeId, <<>>, out)
    ELSE LET calls == <<Call("PUT /customers/:id/liveness/records/challenge",
                             [customerId |-> r.cid,
                              challengeType |-> IF Truthy(r.body.challengeType)
                                                THEN r.body.challengeType ELSE "passive"],
                             out)>>
             res == Svc_createLivenessChallenge(out)
         IN IF res.threw
            THEN Answer(r, calls,
                        Error("Failed to perform liveness check", 500, res.message))
            ELSE Await(r, "submit", calls, [finalChallengeId |-> res.value.challengeId])

\* performFaceDetection as it would be if it were refused until a document of
\* the subject has been verified
Ctl_performFaceDetection_AfterDocument(r, out) ==
    IF ~Truthy(r.body.image)
    THEN Answer(r, <<>>, ValidationError(<<"image is required">>))
    ELSE IF r.cid = watched /\ hist.document = Absent
    THEN Answer(r, <<>>, Error("Failed to detect face", 409, <<"document first">>))
    ELSE LET calls == <<Call("POST /faces", [image |-> r.body.image], out)>>
             res == Svc_detectFace(out)
         IN IF res.threw
            THEN Answer(r, calls, Error("Failed to detect face", 500, res.message))
            ELSE Await(r, "mask", calls, [faceResult |-> res.value])

\* performFaceDetection as it would be if it answered with the caught error's
\* own message
Ctl_performFaceDetection_Leaky(r, out) ==
    IF ~Truthy(r.body.image)
    THEN Answer(r, <<>>, ValidationError(<<"image is required">>))
    ELSE LET calls == <<Call("POST /faces", [image |-> r.body.image], out)>>
             res == Svc_detectFace(out)
         IN IF res.threw
            THEN Answer(r, calls, Error(res.message, 500, res.message))
            ELSE Await(r, "mask", calls, [faceResult |-> res.value])

\* performFaceDetection up to its first await: detectFace
Ctl_performFaceDetection(r, out) ==
    IF ~Truthy(r.body.image)
    THEN Answer(r, <<>>, ValidationError(<<"image is required">>))
    ELSE LET calls == <<Call("POST /faces", [image |-> r.body.image], out)>>
             res == Svc_detectFace(out)
         IN IF res.threw
            THEN Answer(r, calls, Error("Failed to detect face", 500, res.message))
            ELSE Await(r, "mask", calls, [faceResult |-> res.value])

\* performFaceDetection's mask check as it would be if the face id were read
\* from a place all invocations share, holding another invocation's face
Ctl_checkFaceMask_Shared(r, out) ==
    LET calls == Append(r.calls, Call("GET /faces/:id/face-mask", "f1", out))
        res == Svc_checkFaceMask(out)
    IN IF res.threw
       THEN Answer(r, calls, Error("Failed to detect face", 500, res.message))
       ELSE Answer(r, calls,
                   Success([customerId |-> r.cid, faceResult |-> r.loc.faceResult,
                            maskResult |-> res.value, status |-> "face_detected"],
                           "Face detection and mask check performed successfully"))

\* performFaceDetection from its second await: checkFaceMask
Ctl_checkFaceMask(r, out) ==
    LET calls == Append(r.calls, Call("GET /faces/:id/face-mask", r.loc.faceResult.id, out))
        res == Svc_checkFaceMask(out)
    IN IF res.threw
       THEN Answer(r, calls, Error("Failed to detect face", 500, res.message))
       ELSE Answer(r, calls,
                   Success([customerId |-> r.cid, faceResult |-> r.loc.faceResult,
                            maskResult |-> res.value, status |-> "face_detected"],
                           "Face detection and mask check performed successfully"))

\* compareFaces as it would be without its check of the two references
Ctl_compareFaces_NoRefCheck(r, out) ==
    IF ~Truthy(r.body.probeFaceId)
    THEN Answer(r, <<>>, ValidationError(<<"probeFaceId is required">>))
    ELSE LET calls == <<Call("POST /faces/:id/similarity",
                             [probeFaceId |-> r.body.probeFaceId,
                              referenceFace |-> r.body.referenceFace,
                              referenceFaceTemplate |-> r.body.referenceFaceTemplate],
                             out)>>
             res == Svc_compareFaces(out)
         IN IF res.threw
            THEN Answer(r, calls, Error("Failed to compare faces", 500, res.message))
            ELSE Answer(r, calls,
                        Success([customerId |-> r.cid, similarityResult |-> res.value,
                                 status |-> "faces_compared"],
                                "Face comparison performed successfully"))

\* compareFaces
Ctl_compareFaces(r, out) ==
    IF ~Truthy(r.body.probeFaceId)
    THEN Answer(r, <<>>, ValidationError(<<"probeFaceId is required">>))
    ELSE IF ~Truthy(r.body.referenceFace) /\ ~Truthy(r.body.referenceFaceTemplate)
    THEN Answer(r, <<>>,
                ValidationError(<<"Either referenceFace or referenceFaceTemplate is required">>))
    ELSE LET calls == <<Call("POST /faces/:id/similarity",
                             [probeFaceId |-> r.body.probeFaceId,
                              referenceFace |-> r.body.referenceFace,
                              referenceFaceTemplate |-> r.body.referenceFaceTemplate],
                             out)>>
             res == Svc_compareFaces(out)
         IN IF res.threw
            THEN Answer(r, calls, Error("Failed to compare faces", 500, res.message))
            ELSE Answer(r, calls,
                        Success([customerId |-> r.cid, similarityResult |-> res.value,
                                 status |-> "faces_compared"],
                                "Face comparison performed successfully"))

\* uploadSelfie as it would be without its check of image
Ctl_uploadSelfie_Unchecked(r, out) ==
    LET calls == <<Call("PUT /customers/:id/selfie",
                        [customerId |-> r.cid, image |-> r.body.image], out)>>
        res == Svc_uploadSelfie(out)
    IN IF res.threw
       THEN Answer(r, calls, Error("Failed to upload selfie", 500, res.message))
       ELSE Answer(r, calls,
                   Success([customerId |-> r.cid, selfieResult |-> res.value,
                            status |-> "selfie_uploaded"],
                           "Selfie uploaded successfully"))

\* uploadSelfie
Ctl_uploadSelfie(r, out) ==
    IF ~Truthy(r.body.image)
    THEN Answer(r, <<>>, ValidationError(<<"image is required">>))
    ELSE LET calls == <<Call("PUT /customers/:id/selfie",
                             [customerId |-> r.cid, image |-> r.body.image], out)>>
             res == Svc_uploadSelfie(out)
         IN IF res.threw
            THEN Answer(r, calls, Error("Failed to upload selfie", 500, res.message))
            ELSE Answer(r, calls,
                        Success([customerId |-> r.cid, selfieResult |-> res.value,
                                 status |-> "selfie_uploaded"],
                                "Selfie uploaded successfully"))

\* getCustomerStatus as it would be if it reported the onboarding as finished
Ctl_getCustomerStatus_Finished(r) ==
    Answer(r, <<>>,
           Success([customerId |-> r.cid, status |-> "active",
                    onboardingStatus |-> "FINISHED"],
                   "Customer status retrieved successfully"))

\* getCustomerStatus
Ctl_getCustomerStatus(r) ==
    Answer(r, <<>>,
           Success([customerId |-> r.cid, status |-> "active",
                    onboardingStatus |-> "IN_PROGRESS"],
                   "Customer status retrieved successfully"))

\* deleteCustomer up to its first await: deleteSelfie
Ctl_deleteCustomer(r, out) ==
    LET calls == <<Call("DELETE /customers/:id/selfie", r.cid, out)>>
        res == Svc_deleteSelfie(out)
    IN IF res.threw
       THEN Answer(r, calls, Error("Failed to delete customer data", 500, res.message))
       ELSE Await(r, "liveness", calls, Absent)

\* deleteCustomer's second part as it would be if a failure of
\* deleteLivenessData were ignored
Ctl_deleteLivenessData_Lenient(r, out) ==
    LET calls == Append(r.calls, Call("DELETE /customers/:id/liveness", r.cid, out))
    IN Answer(r, calls,
              Success([customerId |-> r.cid, deleted |-> TRUE],
                      "Customer data deleted successfully"))

\* deleteCustomer from its second await: deleteLivenessData
Ctl_deleteLivenessData(r, out) ==
    LET calls == Append(r.calls, Call("DELETE /customers/:id/liveness", r.cid, out))
        res == Svc_deleteLivenessData(out)
    IN IF res.threw
       THEN Answer(r, calls, Error("Failed to delete customer data", 500, res.message))
       ELSE Answer(r, calls,
                   Success([customerId |-> r.cid, deleted |-> TRUE],
                           "Customer data deleted successfully"))

\* ------------------------------------------------- what the provider answers
CreateCustomerOutcomes == {Failed} \cup {Ok([id |-> c]) : c \in Customers \ customers}
CreateDocumentOutcomes == {Failed, Ok([id |-> "doc"])}
VerifyDocumentOutcomes == {Failed} \cup {Ok([verificationStatus |-> v]) : v \in DocStatuses}
ChallengeOutcomes == {Failed} \cup {Ok([challengeId |-> ch]) : ch \in ChallengeIds}
LivenessOutcomes == {Failed} \cup {Ok([status |-> v]) : v \in LiveStatuses}
DetectOutcomes == {Failed} \cup {Ok([id |-> f]) : f \in FaceIds}
MaskOutcomes == {Failed} \cup {Ok([score |-> m]) : m \in Scores}
SimilarityOutcomes == {Failed} \cup {Ok([score |-> m]) : m \in Scores}
DeleteOutcomes == {Failed, Ok(Absent)}
UploadSelfieOutcomes == {Failed, Ok([id |-> "selfie"])}

\* ------------------------------------------------------ what clients send
CreateCustomerBodies == {[userId |-> u] : u \in {"", "u1"}}
DocumentBodies ==
    {[frontImage |-> "", backImage |-> Absent, documentType |-> Absent],
     [frontImage |-> "img", backImage |-> Absent, documentType |-> Absent],
     [frontImage |-> "img", backImage |-> "img", documentType |-> "passport"],
     [frontImage |-> "img", backImage |-> Absent, documentType |-> "selfie"]}
LivenessBodies ==
    {[image |-> "", challengeId |-> Absent, challengeType |-> Absent],
     [image |-> "img", challengeId |-> Absent, challengeType |-> Absent],
     [image |-> "img", challengeId |-> Absent, challengeType |-> "motion"],
     [image |-> "img", challengeId |-> "ch1", challengeType |-> Absent]}
ImageBodies == {[image |-> i] : i \in {"", "img"}}
CompareBodies ==
    {[probeFaceId |-> "", referenceFace |-> "ref", referenceFaceTemplate |-> Absent],
     [probeFaceId |-> "f1", referenceFace |-> Absent, referenceFaceTemplate |-> Absent],
     [probeFaceId |-> "f1", referenceFace |-> Absent, referenceFaceTemplate |-> "tpl"]}
    \cup {[probeFaceId |-> p, referenceFace |-> "ref", referenceFaceTemplate |-> Absent] :
              p \in FaceIds}

\* ----------------------------------------------------------------- actions
\* POST /customer
CreateCustomer(s) ==
    /\ CanArrive(s)
    /\ \E body \in CreateCustomerBodies, out \in CreateCustomerOutcomes :
         LET req == NewRequest("createCustomer", Absent, body)
             r == handleValidationErrors(req, Ctl_createCustomer(req, out))
         IN /\ Finish(s, r)
            /\ customers' = IF r.calls # <<>> /\ out.ok
                            THEN customers \cup {out.data.id} ELSE customers
    /\ UNCHANGED watched

\* POST /:customerId/document
UploadDocument(s) ==
    /\ CanArrive(s)
    /\ \E c \in Customers, body \in DocumentBodies, out \in CreateDocumentOutcomes :
         LET req == NewRequest("uploadDocument", c, body)
         IN Finish(s, handleValidationErrors(req, Ctl_uploadDocument(req, out)))
    /\ UNCHANGED <<customers, watched>>

UploadDocumentVerify(s) ==
    /\ Busy(s) /\ reqs[s].op = "uploadDocument" /\ reqs[s].pc = "verify"
    /\ \E out \in VerifyDocumentOutcomes : Finish(s, Ctl_uploadDocumentVerify(reqs[s], out))
    /\ UNCHANGED <<customers, watched>>

\* POST /:customerId/liveness
PerformLivenessCheck(s) ==
    /\ CanArrive(s)
    /\ \E c \in Customers, body \in LivenessBodies :
         \E out \in IF Truthy(body.challengeId) THEN LivenessOutcomes ELSE ChallengeOutcomes :
            LET req == NewRequest("performLivenessCheck", c, body)
            IN Finish(s, handleValidationErrors(req, Ctl_performLivenessCheck(req, out)))
    /\ UNCHANGED <<customers, watched>>

SubmitLiveness(s) ==
    /\ Busy(s) /\ reqs[s].op = "performLivenessCheck" /\ reqs[s].pc = "submit"
    /\ \E out \in LivenessOutcomes :
         Finish(s, Ctl_submitLiveness(reqs[s], reqs[s].loc.finalChallengeId, reqs[s].calls, out))
    /\ UNCHANGED <<customers, watched>>

\* POST /:customerId/face-detect
PerformFaceDetection(s) ==
    /\ CanArrive(s)
    /\ \E c \in Customers, body \in ImageBodies, out \in DetectOutcomes :
         LET req == NewRequest("performFaceDetection", c, body)
         IN Finish(s, handleValidationErrors(req, Ctl_performFaceDetection(req, out)))
    /\ UNCHANGED <<customers, watched>>

CheckFaceMask(s) ==
    /\ Busy(s) /\ reqs[s].op = "performFaceDetection" /\ reqs[s].pc = "mask"
    /\ \E out \in MaskOutcomes : Finish(s, Ctl_checkFaceMask(reqs[s], out))
    /\ UNCHANGED <<customers, watched>>

\* POST /:customerId/face-compare
CompareFaces(s) ==
    /\ CanArrive(s)
    /\ \E c \in Customers, body \in CompareBodies, out \in SimilarityOutcomes :
         LET req == NewRequest("compareFaces", c, body)
         IN Finish(s, handleValidationErrors(req, Ctl_compareFaces(req, out)))
    /\ UNCHANGED <<customers, watched>>

\* GET /:customerId/status
GetCustomerStatus(s) ==
    /\ CanArrive(s)
    /\ \E c \in Customers :
         LET req == NewRequest("getCustomerStatus", c, Absent)
         IN Finish(s, handleValidationErrors(req, Ctl_getCustomerStatus(req)))
    /\ UNCHANGED <<customers, watched>>

\* DELETE /:customerId
DeleteCustomer(s) ==
    /\ CanArrive(s)
    /\ \E c \in Customers, out \in DeleteOutcomes :
         LET req == NewRequest("deleteCustomer", c, Absent)
         IN Finish(s, handleValidationErrors(req, Ctl_deleteCustomer(req, out)))
    /\ UNCHANGED <<customers, watched>>

DeleteLivenessData(s) ==
    /\ Busy(s) /\ reqs[s].op = "deleteCustomer" /\ reqs[s].pc = "liveness"
    /\ \E out \in DeleteOutcomes : Finish(s, Ctl_deleteLivenessData(reqs[s], out))
    /\ UNCHANGED <<customers, watched>>

\* The client has read the response; the slot is free again.
Retire(s) ==
    /\ Done(s)
    /\ reqs' = [reqs EXCEPT ![s] = Idle]
    /\ UNCHANGED <<customers, watched, hist>>

Init ==
    /\ reqs = [s \in Slots |-> Idle]
    /\ customers = {}
    /\ watched \in Customers \cup {Nobody}
    /\ hist = EmptyHist

Next ==
    \E s \in Slots :
        \/ CreateCustomer(s)
        \/ UploadDocument(s)
        \/ UploadDocumentVerify(s)
        \/ PerformLivenessCheck(s)
        \/ SubmitLiveness(s)
        \/ PerformFaceDetection(s)
        \/ CheckFaceMask(s)
        \/ CompareFaces(s)
        \/ GetCustomerStatus(s)
        \/ DeleteCustomer(s)
        \/ DeleteLivenessData(s)
        \/ Retire(s)

Spec == Init /\ [][Next]_vars

\* ------------------------------------------------ the provider's failures
\* The same handlers when a provider call may fail in each of the ways axios
\* reports: no response, the deadline, or an error response with its text.
\* Requests overlap; no subject is watched.
ProviderOps ==
    {"createCustomer", "uploadDocument", "performLivenessCheck",
     "performFaceDetection", "compareFaces", "uploadSelfie", "deleteCustomer"}
BodiesOf(op) ==
    CASE op = "createCustomer" -> CreateCustomerBodies
      [] op = "uploadDocument" -> DocumentBodies
      [] op = "performLivenessCheck" -> LivenessBodies
      [] op = "performFaceDetection" -> ImageBodies
      [] op = "compareFaces" -> CompareBodies
      [] op = "uploadSelfie" -> ImageBodies
      [] op = "deleteCustomer" -> {Absent}

\* What the provider may answer to the call the request is about to make
OutcomesAt(r) ==
    Failures \cup
    CASE r.op = "createCustomer" -> CreateCustomerOutcomes
      [] r.op = "uploadDocument" ->
            IF r.pc = "start" THEN CreateDocumentOutcomes ELSE VerifyDocumentOutcomes
      [] r.op = "performLivenessCheck" ->
            IF r.pc = "start" /\ ~Truthy(r.body.challengeId)
            THEN ChallengeOutcomes ELSE LivenessOutcomes
      [] r.op = "performFaceDetection" ->
            IF r.pc = "start" THEN DetectOutcomes ELSE MaskOutcomes
      [] r.op = "compareFaces" -> SimilarityOutcomes
      [] r.op = "uploadSelfie" -> UploadSelfieOutcomes
      [] r.op = "deleteCustomer" -> DeleteOutcomes

\* The handler's segment from where the request stands
Segment(r, out) ==
    CASE r.op = "createCustomer" -> Ctl_createCustomer(r, out)
      [] r.op = "uploadDocument" ->
            IF r.pc = "start" THEN Ctl_uploadDocument(r, out)
            ELSE Ctl_uploadDocumentVerify(r, out)
      [] r.op = "performLivenessCheck" ->
            IF r.pc = "start" THEN Ctl_performLivenessCheck(r, out)
            ELSE Ctl_submitLiveness(r, r.loc.finalChallengeId, r.calls, out)
      [] r.op = "performFaceDetection" ->
            IF r.pc = "start" THEN Ctl_performFaceDetection(r, out)
            ELSE Ctl_checkFaceMask(r, out)
      [] r.op = "compareFaces" -> Ctl_compareFaces(r, out)
      [] r.op = "uploadSelfie" -> Ctl_uploadSelfie(r, out)
      [] r.op = "deleteCustomer" ->
            IF r.pc = "start" THEN Ctl_deleteCustomer(r, out)
            ELSE Ctl_deleteLivenessData(r, out)

\* A request arrives and runs to its first await or to its answer
Arrive(s) ==
    /\ CanArrive(s)
    /\ \E op \in ProviderOps, c \in Customers : \E body \in BodiesOf(op) :
       LET req == NewRequest(op, IF op = "createCustomer" THEN Absent ELSE c, body)
       IN \E out \in OutcomesAt(req) :
         LET r == handleValidationErrors(req, Segment(req, out))
         IN /\ Finish(s, r)
            /\ customers' = IF req.op = "createCustomer" /\ r.calls # <<>> /\ out.ok
                            THEN customers \cup {out.data.id} ELSE customers
    /\ UNCHANGED watched

\* A suspended request's provider call ends and the handler runs on
Resume(s) ==
    /\ Busy(s)
    /\ \E out \in OutcomesAt(reqs[s]) : Finish(s, Segment(reqs[s], out))
    /\ UNCHANGED <<customers, watched>>

ErrInit ==
    /\ reqs = [s \in Slots |-> Idle]
    /\ customers = {}
    /\ watched = Nobody
    /\ hist = EmptyHist

ErrNext == \E s \in Slots : Arrive(s) \/ Resume(s) \/ Retire(s)

ErrSpec == ErrInit /\ [][ErrNext]_vars

\* ------------------------------------- InnovatricsService.evaluateLiveness
\* The service's own liveness evaluation, which no handler calls: three
\* provider calls in one try block, each awaited.  An invocation occupies a
\* slot as a request does; its outcome is what the method returns or throws.
Returned(value) == [handler |-> "returned", value |-> value]
Thrown(res) == [handler |-> "threw", message |-> <<"Liveness evaluation failed", res.message>>]

GetSelfieOutcomes == Failures \cup {Ok([image |-> i]) : i \in {"selfieA", "selfieB"}}
EvaluateOptions == {[challengeType |-> ct] : ct \in {Absent, "motion"}}

\* evaluateLiveness up to its first await: createLivenessChallenge
Svc_evaluateLiveness(r, out) ==
    LET calls == <<Call("PUT /customers/:id/liveness/records/challenge",
                        [customerId |-> r.cid,
                         challengeType |-> IF Truthy(r.body.challengeType)
                                           THEN r.body.challengeType ELSE "passive"],
                        out)>>
        res == Svc_createLivenessChallenge(out)
    IN IF res.threw THEN Answer(r, calls, Thrown(res))
       ELSE Await(r, "getSelfie", calls, [challenge |-> res.value])

\* evaluateLiveness from getSelfie as it would be if a failure of getSelfie
\* were ignored and an empty image submitted
Svc_evaluateLiveness_getSelfie_Lenient(r, out) ==
    LET calls == Append(r.calls, Call("GET /customers/:id/selfie", r.cid, out))
        res == Svc_getSelfie(out)
    IN Await(r, "submit", calls,
             [challenge |-> r.loc.challenge,
              selfie |-> IF res.threw THEN [image |-> ""] ELSE res.value])

\* evaluateLiveness from its second await: getSelfie
Svc_evaluateLiveness_getSelfie(r, out) ==
    LET calls == Append(r.calls, Call("GET /customers/:id/selfie", r.cid, out))
        res == Svc_getSelfie(out)
    IN IF res.threw THEN Answer(r, calls, Thrown(res))
       ELSE Await(r, "submit", calls, [challenge |-> r.loc.challenge, selfie |-> res.value])

\* evaluateLiveness from its third await: submitLivenessData, and the response
\* (confidence and the deepfake fields are left out of the data)
Svc_evaluateLiveness_submit(r, out) ==
    LET calls == Append(r.calls, Call("PUT /customers/:id/liveness",
                                      [customerId |-> r.cid,
                                       image |-> r.loc.selfie.image,
                                       challengeId |-> r.loc.challenge.challengeId],
                                      out))
        res == Svc_submitLivenessData(out)
    IN IF res.threw THEN Answer(r, calls, Thrown(res))
       ELSE Answer(r, calls, Returned([status |-> res.value.status]))

EvaluateLiveness(s) ==
    /\ IsIdle(s)
    /\ \E c \in Customers, options \in EvaluateOptions :
         \E out \in Failures \cup ChallengeOutcomes :
            Finish(s, Svc_evaluateLiveness(NewRequest("evaluateLiveness", c, options), out))
    /\ UNCHANGED <<customers, watched>>

EvaluateLivenessGetSelfie(s) ==
    /\ Busy(s) /\ reqs[s].op = "evaluateLiveness" /\ reqs[s].pc = "getSelfie"
    /\ \E out \in GetSelfieOutcomes : Finish(s, Svc_evaluateLiveness_getSelfie(reqs[s], out))
    /\ UNCHANGED <<customers, watched>>

EvaluateLivenessSubmit(s) ==
    /\ Busy(s) /\ reqs[s].op = "evaluateLiveness" /\ reqs[s].pc = "submit"
    /\ \E out \in Failures \cup LivenessOutcomes :
         Finish(s, Svc_evaluateLiveness_submit(reqs[s], out))
    /\ UNCHANGED <<customers, watched>>

SvcNext ==
    \E s \in Slots :
        \/ EvaluateLiveness(s)
        \/ EvaluateLivenessGetSelfie(s)
        \/ EvaluateLivenessSubmit(s)
        \/ Retire(s)

SvcSpec == ErrInit /\ [][SvcNext]_vars

\* ============================================================ properties
\* Vocabulary of the claims, read off a request's log and response.
Req(s) == reqs[s]
Answered(s, op) == Done(s) /\ reqs[s].op = op
Succeeded(s) == reqs[s].resp.handler = "success"
NoProviderCall(s) == reqs[s].calls = <<>>
CallsTo(s, endpoint) == {i \in DOMAIN reqs[s].calls : reqs[s].calls[i].endpoint = endpoint}
StageOps == {"uploadDocument", "performLivenessCheck", "performFaceDetection", "compareFaces"}
\* The overall status a status response reports: the response's field for it
\* is onboardingStatus, 'IN_PROGRESS' standing for in_progress and 'FINISHED'
\* for completed
OverallStatus(s) ==
    IF Succeeded(s) /\ "onboardingStatus" \in DOMAIN reqs[s].resp.data
    THEN CASE reqs[s].resp.data.onboardingStatus = "IN_PROGRESS" -> "in_progress"
           [] reqs[s].resp.data.onboardingStatus = "FINISHED" -> "completed"
           [] OTHER -> Absent
    ELSE Absent
\* The watched subject's latest results are all positive
AllPositive ==
    /\ hist.document = "verified"
    /\ \E l \in hist.liveness : l.live
    /\ \E m \in hist.similarity : m.score = 1
\* The run of C3 has happened for the watched subject
ScenarioRun ==
    /\ hist.started /\ ~hist.terminated
    /\ hist.document = "verified"
    /\ \E l \in hist.liveness : l.live /\ l.auto
    /\ \E m \in hist.similarity : m.score = 1 /\ m.probe \in hist.faces
NoStageRun ==
    /\ hist.document = Absent /\ hist.liveness = {}
    /\ hist.similarity = {} /\ hist.faces = {}

\* C1 (as claimed): for a started subject, compareFaces with a probeFaceId that
\* no earlier successful detectFace of the same subject returned fails and makes
\* no provider call.
\* (The failure's kind is not even asked for here: any failure would do.)
C1_CompareNeedsDetectedProbe ==
    \A s \in Slots :
        (Answered(s, "compareFaces") /\ Req(s).cid = watched
            /\ hist.started /\ ~hist.terminated
            /\ Req(s).body.probeFaceId \notin hist.faces)
        => (~Succeeded(s) /\ NoProviderCall(s))

\* C2 (as claimed): status reports overallStatus = completed exactly when the
\* subject's document, liveness and face-match results are all present and
\* positive.
C2_CompletedIffAllPositive ==
    \A s \in Slots :
        (Answered(s, "getCustomerStatus") /\ Req(s).cid = watched)
        => (OverallStatus(s) = "completed" <=> AllPositive)

\* C3 (as claimed): after start, verifyDocument, evaluateLiveness without a
\* challengeId, detectFace and compareFaces on the detected face, all positive,
\* status answers overallStatus = completed with the results of the run.
C3_ScenarioEndsCompleted ==
    \A s \in Slots :
        (Answered(s, "getCustomerStatus") /\ Req(s).cid = watched /\ ScenarioRun)
        => /\ Succeeded(s)
           /\ OverallStatus(s) = "completed"
           /\ {"documentResult", "livenessResult", "faceMatchResult"}
                 \subseteq DOMAIN Req(s).resp.data

\* C4 (as claimed): every deleteCustomer calls both deleteSelfie and
\* deleteLivenessData, each exactly once, however the other one ends.
C4_BothDeletionsAttempted ==
    \A s \in Slots :
        Answered(s, "deleteCustomer")
        => /\ Cardinality(CallsTo(s, "DELETE /customers/:id/selfie")) = 1
           /\ Cardinality(CallsTo(s, "DELETE /customers/:id/liveness")) = 1

\* C5 (as claimed): when deleteSelfie succeeds and deleteLivenessData fails, the
\* answer is not a failure of the whole operation: it reports (partial) success.
\* (The program keeps no local workflow state, so there is none to clear.)
C5_PartialSuccessReported ==
    \A s \in Slots :
        (Answered(s, "deleteCustomer") /\ Len(Req(s).calls) = 2
            /\ Req(s).calls[1].out.ok /\ ~Req(s).calls[2].out.ok)
        => Req(s).resp.handler # "error"

\* An invocation of performLivenessCheck that was given no challengeId
AutoChallenge(s) ==
    ~IsIdle(s) /\ Req(s).op = "performLivenessCheck" /\ ~Truthy(Req(s).body.challengeId)

C7_FreshStatusInProgress ==
    \A s \in Slots :
        (Answered(s, "getCustomerStatus") /\ Req(s).cid = watched /\ NoStageRun)
        => /\ Succeeded(s)
           /\ DOMAIN Req(s).resp.data
                 \cap {"documentResult", "livenessResult", "faceResult",
                       "faceMatchResult", "similarityResult", "maskResult"} = {}
           /\ OverallStatus(s) = "in_progress"

\* C7 witness: status has been answered for a subject id that start never
\* returned and that no stage has run for.
C7_Witness ==
    \E s \in Slots :
        /\ Answered(s, "getCustomerStatus") /\ Req(s).cid = watched
        /\ NoStageRun /\ ~hist.started

\* C8 (as claimed): after two or more successful verifyDocument calls for a
\* subject, status shows its document result, and it is the latest one.
C8_StatusShowsLatestDocument ==
    \A s \in Slots :
        (Answered(s, "getCustomerStatus") /\ Req(s).cid = watched /\ hist.resubmitted)
        => /\ Succeeded(s)
           /\ "documentResult" \in DOMAIN Req(s).resp.data
           /\ Req(s).resp.data.documentResult.verificationStatus = hist.document

\* C9 (as claimed): when face detection succeeds and the mask check fails,
\* performFaceDetection still succeeds and returns the detection result.
C9_MaskFailureNotFatal ==
    \A s \in Slots :
        (Answered(s, "performFaceDetection") /\ Len(Req(s).calls) = 2
            /\ Req(s).calls[1].out.ok /\ ~Req(s).calls[2].out.ok)
        => /\ Succeeded(s)
           /\ Req(s).resp.data.faceResult = Req(s).calls[1].out.data

\* C10 (as claimed): a stage operation naming a subject that start never
\* created, or that has been terminated, fails and makes no provider call.
\* (The failure's kind is not asked for: any failure would do.)
C10_UnknownSubjectRejected ==
    \A s \in Slots :
        (Done(s) /\ Req(s).op \in StageOps /\ Req(s).cid = watched
            /\ (~hist.started \/ hist.terminated))
        => (~Succeeded(s) /\ NoProviderCall(s))

\* A stage operation between its first provider call and its answer
InStage(s) == Busy(s) /\ Req(s).op \in StageOps /\ Req(s).calls # <<>>

\* C11 (as claimed): at most one stage operation per subject is between its
\* first provider call and its completion or failure.
C11_StagesMutuallyExclusive ==
    \A s, t \in Slots :
        (s # t /\ InStage(s) /\ InStage(t)) => Req(s).cid # Req(t).cid

\* C12 (as claimed): once deleteCustomer has succeeded for a subject, no later
\* stage operation on that subject id succeeds or calls the provider.
C12_DeletedIsAbsorbing ==
    \A s \in Slots :
        (hist.terminated /\ Done(s) /\ Req(s).op \in StageOps /\ Req(s).cid = watched)
        => (~Succeeded(s) /\ NoProviderCall(s))

\* The artifacts a status response shows, by stage
ShownArtifacts(s) ==
    IF Succeeded(s)
    THEN DOMAIN Req(s).resp.data
            \cap {"documentResult", "livenessResult", "faceResult", "similarityResult"}
    ELSE {}
\* The stages that have succeeded for the watched subject since its start, by
\* the artifact each one produces
SucceededStages ==
    (IF hist.document # Absent THEN {"documentResult"} ELSE {})
    \cup (IF hist.liveness # {} THEN {"livenessResult"} ELSE {})
    \cup (IF hist.faces # {} THEN {"faceResult"} ELSE {})
    \cup (IF hist.similarity # {} THEN {"similarityResult"} ELSE {})

\* C13 (as claimed): the workflow state that status returns for a subject holds
\* a stage's artifact if and only if that stage has succeeded at least once for
\* the subject since it was started.
C13_ArtifactIffStageSucceeded ==
    \A s \in Slots :
        (Answered(s, "getCustomerStatus") /\ Req(s).cid = watched /\ hist.started)
        => ShownArtifacts(s) = SucceededStages

FailedCall(s) == Req(s).calls[Len(Req(s).calls)]
FailedByProvider(s) ==
    Done(s) /\ Req(s).resp.handler = "error" /\ Req(s).calls # <<>>
\* What an error response holds besides the free text of its detail
KindTag(resp) == [message |-> resp.message, code |-> resp.code]

\* C15 (as claimed): failures of different kinds (no response, provider's
\* rejection, timeout) are reported to the caller under different error kinds.
C15_FailureKindsDistinguished ==
    \A s, t \in Slots :
        (FailedByProvider(s) /\ FailedByProvider(t)
            /\ FailureKind(FailedCall(s).out) # FailureKind(FailedCall(t).out))
        => KindTag(Req(s).resp) # KindTag(Req(t).resp)

\* Two logs of provider calls that differ at most in the text of the provider's
\* error bodies
SameButTexts(cs, ct) ==
    /\ Len(cs) = Len(ct)
    /\ \A i \in DOMAIN cs :
         /\ cs[i].endpoint = ct[i].endpoint
         /\ cs[i].args = ct[i].args
         /\ \/ cs[i].out = ct[i].out
            \/ /\ ~cs[i].out.ok /\ ~ct[i].out.ok
               /\ FailureKind(cs[i].out) = "rejected"
               /\ FailureKind(ct[i].out) = "rejected"
SameRun(s, t) ==
    /\ Req(s).op = Req(t).op /\ Req(s).cid = Req(t).cid /\ Req(s).body = Req(t).body
    /\ SameButTexts(Req(s).calls, Req(t).calls)

ForeignProbeArrives(s) ==
    /\ watched # Nobody /\ IsIdle(s) /\ ~IsIdle(s)'
    /\ reqs'[s].op = "compareFaces"
    /\ reqs'[s].cid # watched
    /\ reqs'[s].body.probeFaceId \in hist.faces

\* C17 (as claimed): an artifact produced under one subject is never accepted
\* by an operation on another: a comparison for subject B whose probe is a face
\* detected under subject A does not succeed and does not reach the provider.
C17_ForeignProbeRefused ==
    [][\A s \in Slots :
          ForeignProbeArrives(s)
          => (reqs'[s].resp.handler # "success" /\ reqs'[s].calls = <<>>)]_vars

\* The liveness statuses the service declares for its evaluation
LivenessStatusEnum == {"live", "not_live", "suspicious"}

\* C18 (as claimed): the liveness status a caller receives is one of the local
\* status values, unknown standing for every provider status outside them.
C18_LivenessStatusInClosedEnum ==
    \A s \in Slots :
        (Answered(s, "performLivenessCheck") /\ Succeeded(s))
        => Req(s).resp.data.livenessResult.status \in LivenessStatusEnum \cup {"unknown"}

NoReference(body) == ~Truthy(body.referenceFace) /\ ~Truthy(body.referenceFaceTemplate)
ReferenceRequired ==
    ValidationError(<<"Either referenceFace or referenceFaceTemplate is required">>)

\* C19: a comparison with neither a reference image nor a reference template
\* is answered as a validation failure without a provider call; with one of
\* them it is not refused for its reference, and with a probe too the provider
\* is called.
C19_CompareNeedsAReference ==
    \A s \in Slots :
        Answered(s, "compareFaces")
        => IF NoReference(Req(s).body)
           THEN Req(s).resp.handler = "validationError" /\ NoProviderCall(s)
           ELSE /\ Req(s).resp # ReferenceRequired
                /\ Truthy(Req(s).body.probeFaceId)
                   => (Req(s).resp.handler # "validationError"
                       /\ CallsTo(s, "POST /faces/:id/similarity") = {1})

\* C19 witness: a comparison that names its probe and no reference has been
\* refused for its missing reference.
C19_Witness ==
    \E s \in Slots :
        /\ Answered(s, "compareFaces")
        /\ Truthy(Req(s).body.probeFaceId) /\ NoReference(Req(s).body)
        /\ Req(s).resp = ReferenceRequired

\* What the rules of its route find wrong in a request
RouteViolations(r) ==
    CASE r.op = "createCustomer" -> validateCreateCustomer(r.body)
      [] r.op = "uploadDocument" -> validateDocumentVerification(r.cid, r.body)
      [] r.op = "performLivenessCheck" -> validateLivenessCheck(r.cid, r.body)
      [] r.op = "performFaceDetection" -> validateFaceDetection(r.cid, r.body)
      [] r.op = "compareFaces" -> validateFaceComparison(r.cid, r.body)
      [] r.op = "getCustomerStatus" -> validateGetCustomerStatus(r.cid)
      [] r.op = "deleteCustomer" -> validateDeleteCustomer(r.cid)

\* C20 (as claimed): a request that breaks a rule of its route is answered by
\* handleValidationErrors with 400 'Validation failed' and its controller never
\* runs: it makes no provider call and does not wait for one.
C20_InvalidRequestStoppedBeforeController ==
    \A s \in Slots :
        (~IsIdle(s) /\ RouteViolations(Req(s)) # <<>>)
        => /\ Done(s) /\ NoProviderCall(s)
           /\ Req(s).resp.handler = "json"
           /\ Req(s).resp.code = 400
           /\ Req(s).resp.message = "Validation failed"

\* C21: whatever other face detections are in flight, the mask check of an
\* invocation asks for the face its own detectFace call returned, and on
\* success the response holds that detection and the provider's answer to that
\* mask check.
C21_MaskOfOwnDetection ==
    \A s \in Slots :
        (~IsIdle(s) /\ Req(s).op = "performFaceDetection"
            /\ CallsTo(s, "GET /faces/:id/face-mask") # {})
        => /\ Len(Req(s).calls) = 2
           /\ Req(s).calls[1].endpoint = "POST /faces" /\ Req(s).calls[1].out.ok
           /\ Req(s).calls[2].endpoint = "GET /faces/:id/face-mask"
           /\ Req(s).calls[2].args = Req(s).calls[1].out.data.id
           /\ (Done(s) /\ Succeeded(s))
                 => /\ Req(s).resp.data.faceResult = Req(s).calls[1].out.data
                    /\ Req(s).resp.data.maskResult = Req(s).calls[2].out.data

\* C21 witness: a detection has succeeded for a subject while another detection
\* for the same subject, holding a different face, waits for its mask check.
C21_Witness ==
    \E s, t \in Slots :
        /\ s # t
        /\ Answered(s, "performFaceDetection") /\ Succeeded(s)
        /\ Busy(t) /\ Req(t).op = "performFaceDetection" /\ Req(t).pc = "mask"
        /\ Req(t).cid = Req(s).cid
        /\ Req(t).loc.faceResult.id # Req(s).resp.data.faceResult.id

\* The endpoints an invocation has called
Endpoints(s) == {Req(s).calls[i].endpoint : i \in DOMAIN Req(s).calls}

\* C22: no invocation calls a provider endpoint twice, and none calls the
\* provider again after a call of it failed: a failed call is its last.
C22_NoRetry ==
    \A s \in Slots :
        ~IsIdle(s)
        => /\ \A e \in Endpoints(s) : Cardinality(CallsTo(s, e)) = 1
           /\ \A i \in DOMAIN Req(s).calls :
                ~Req(s).calls[i].out.ok => (i = Len(Req(s).calls) /\ Done(s))

\* C22 witness: an invocation that created its challenge has answered after its
\* submission failed.
C22_Witness ==
    \E s \in Slots :
        /\ AutoChallenge(s) /\ Done(s)
        /\ Len(Req(s).calls) = 2
        /\ Req(s).calls[1].out.ok /\ ~Req(s).calls[2].out.ok

\* A performLivenessCheck without challengeId whose challenge was created and
\* whose submission then failed
FailedAfterChallenge(r) ==
    /\ r.op = "performLivenessCheck" /\ ~Truthy(r.body.challengeId)
    /\ r.pc = "done" /\ Len(r.calls) = 2
    /\ r.calls[1].out.ok /\ ~r.calls[2].out.ok
\* A performLivenessCheck with an image and without challengeId arrives at slot s
AutoChallengeArrives(s) ==
    /\ IsIdle(s) /\ ~IsIdle(s)'
    /\ reqs'[s].op = "performLivenessCheck"
    /\ Truthy(reqs'[s].body.image) /\ ~Truthy(reqs'[s].body.challengeId)

\* C23: when the challenge was created and the submission fails, the answer is
\* a failure without data, the step records nothing (only that request
\* changes), and an invocation without challengeId that arrives afterwards for
\* the same subject asks the provider for a new challenge and holds the id of
\* that one.
C23_FailedSubmissionLeavesNothing ==
    [][\A s \in Slots :
          /\ (~IsIdle(s)' /\ FailedAfterChallenge(reqs'[s]))
                => (reqs'[s].resp.handler = "error" /\ "data" \notin DOMAIN reqs'[s].resp)
          /\ (Busy(s) /\ ~IsIdle(s)' /\ FailedAfterChallenge(reqs'[s]))
                => /\ hist' = hist /\ customers' = customers
                   /\ \A t \in Slots \ {s} : reqs'[t] = reqs[t]
          /\ (AutoChallengeArrives(s)
                /\ \E t \in Slots \ {s} :
                      ~IsIdle(t) /\ FailedAfterChallenge(reqs[t])
                      /\ reqs[t].cid = reqs'[s].cid)
                => /\ Len(reqs'[s].calls) = 1
                   /\ reqs'[s].calls[1].endpoint
                         = "PUT /customers/:id/liveness/records/challenge"
                   /\ reqs'[s].calls[1].out.ok
                         => /\ reqs'[s].pc = "submit"
                            /\ reqs'[s].loc.finalChallengeId
                                  = reqs'[s].calls[1].out.data.challengeId]_vars

\* C23 witness: next to an invocation whose submission failed after its
\* challenge was created, another one for the same subject holds a challenge of
\* its own, a different one.
C23_Witness ==
    \E s, t \in Slots :
        /\ s # t
        /\ ~IsIdle(t) /\ FailedAfterChallenge(Req(t))
        /\ AutoChallenge(s) /\ Req(s).cid = Req(t).cid /\ Req(s).pc = "submit"
        /\ Req(s).loc.finalChallengeId # Req(t).calls[1].out.data.challengeId

CreateChallenge == "PUT /customers/:id/liveness/records/challenge"
SubmitLivenessData == "PUT /customers/:id/liveness"

\* C24: with a challengeId, performLivenessCheck creates no challenge and
\* submits the id it was given; without one, it creates a challenge exactly
\* once, as its first call, the submission comes only after it, and there is no
\* submission when the creation failed.
C24_ChallengeResolvedBeforeSubmission ==
    \A s \in Slots :
        (~IsIdle(s) /\ Req(s).op = "performLivenessCheck" /\ Truthy(Req(s).body.image))
        => IF Truthy(Req(s).body.challengeId)
           THEN /\ CallsTo(s, CreateChallenge) = {}
                /\ CallsTo(s, SubmitLivenessData) = {1}
                /\ Req(s).calls[1].args.challengeId = Req(s).body.challengeId
           ELSE /\ CallsTo(s, CreateChallenge) = {1}
                /\ CallsTo(s, SubmitLivenessData) \subseteq {2}
                /\ Done(s) => (CallsTo(s, SubmitLivenessData) = {2} <=> Req(s).calls[1].out.ok)
                /\ ~Req(s).calls[1].out.ok => Done(s)

\* C24 witness: an invocation given a challengeId has succeeded, and one given
\* none has answered after its creation of a challenge failed.
C24_Witness ==
    \E s, t \in Slots :
        /\ Answered(s, "performLivenessCheck") /\ Truthy(Req(s).body.challengeId)
        /\ Succeeded(s)
        /\ AutoChallenge(t) /\ Done(t) /\ Len(Req(t).calls) = 1 /\ ~Req(t).calls[1].out.ok

\* C25: the challenge performLivenessCheck creates is of the type the caller
\* named, and passive when the caller named none.
C25_ChallengeTypeOrPassive ==
    \A s \in Slots :
        (AutoChallenge(s) /\ CallsTo(s, CreateChallenge) # {})
        => \A i \in CallsTo(s, CreateChallenge) :
              Req(s).calls[i].args.challengeType
                 = IF Truthy(Req(s).body.challengeType)
                   THEN Req(s).body.challengeType ELSE "passive"

\* C25 witness: a challenge has been created for a caller that named a type,
\* and one for a caller that named none.
C25_Witness ==
    \E s, t \in Slots :
        /\ AutoChallenge(s) /\ CallsTo(s, CreateChallenge) # {}
        /\ Truthy(Req(s).body.challengeType)
        /\ AutoChallenge(t) /\ CallsTo(t, CreateChallenge) # {}
        /\ ~Truthy(Req(t).body.challengeType)

\* The field a handler requires of the body is there
RequiredGiven(r) ==
    CASE r.op = "createCustomer" -> Truthy(r.body.userId)
      [] r.op = "uploadDocument" -> Truthy(r.body.frontImage)
      [] r.op \in {"performLivenessCheck", "performFaceDetection", "uploadSelfie"} ->
            Truthy(r.body.image)
      [] r.op = "compareFaces" ->
            Truthy(r.body.probeFaceId)
            /\ (Truthy(r.body.referenceFace) \/ Truthy(r.body.referenceFaceTemplate))
      [] OTHER -> TRUE
AllCallsOk(r) == \A i \in DOMAIN r.calls : r.calls[i].out.ok

\* C26: whatever has or has not been answered for a started, not deleted
\* subject before, uploadDocument, performLivenessCheck and
\* performFaceDetection for it succeed when their required field is there and
\* the provider's calls succeed.
C26_StagesNeedNoPriorStage ==
    \A s \in Slots :
        (Done(s) /\ Req(s).cid = watched /\ hist.started /\ ~hist.terminated
            /\ Req(s).op \in {"uploadDocument", "performLivenessCheck", "performFaceDetection"}
            /\ RequiredGiven(Req(s)) /\ AllCallsOk(Req(s)))
        => (Succeeded(s) /\ ~NoProviderCall(s))

\* C26 witness: a face detection has succeeded for a started subject with no
\* document and no liveness result, and not for the first time.
C26_Witness ==
    \E s \in Slots :
        /\ Answered(s, "performFaceDetection") /\ Succeeded(s) /\ Req(s).cid = watched
        /\ hist.started /\ ~hist.terminated
        /\ hist.document = Absent /\ hist.liveness = {}
        /\ Cardinality(hist.faces) = 2

C28_DeletedOnlyAfterBothDeletions ==
    \A s \in Slots :
        Answered(s, "deleteCustomer")
        => IF Len(Req(s).calls) = 2 /\ AllCallsOk(Req(s))
           THEN /\ Req(s).calls[1].endpoint = "DELETE /customers/:id/selfie"
                /\ Req(s).calls[2].endpoint = "DELETE /customers/:id/liveness"
                /\ Succeeded(s) /\ Req(s).resp.data.deleted
           ELSE Req(s).resp.handler = "error" /\ "data" \notin DOMAIN Req(s).resp

\* C28 witness: a deletion has been answered as a failure after deleteSelfie
\* succeeded and deleteLivenessData failed.
C28_Witness ==
    \E s \in Slots :
        /\ Answered(s, "deleteCustomer") /\ Len(Req(s).calls) = 2
        /\ Req(s).calls[1].out.ok /\ ~Req(s).calls[2].out.ok
        /\ Req(s).resp.handler = "error"

\* What a handler answers when its first required field is missing
RequiredMessage(r) ==
    CASE r.op = "createCustomer" -> "userId is required"
      [] r.op = "uploadDocument" -> "frontImage is required"
      [] r.op = "compareFaces" -> "probeFaceId is required"
      [] OTHER -> "image is required"
FirstRequiredGiven(r) ==
    IF r.op = "compareFaces" THEN Truthy(r.body.probeFaceId) ELSE RequiredGiven(r)

\* C29: createCustomer without userId, uploadDocument without frontImage,
\* performLivenessCheck, performFaceDetection and uploadSelfie without image,
\* and compareFaces without probeFaceId are answered with the validation
\* error of that field, and no provider call is made.
C29_RequiredFieldBeforeProvider ==
    \A s \in Slots :
        (~IsIdle(s) /\ ~FirstRequiredGiven(Req(s)))
        => /\ Done(s) /\ NoProviderCall(s)
           /\ Req(s).resp = ValidationError(<<RequiredMessage(Req(s))>>)

\* C29 witness: an uploadSelfie without image and a compareFaces without
\* probeFaceId have been answered.
C29_Witness ==
    \E s, t \in Slots :
        /\ Answered(s, "uploadSelfie") /\ ~Truthy(Req(s).body.image)
        /\ Answered(t, "compareFaces") /\ ~Truthy(Req(t).body.probeFaceId)

GetSelfie == "GET /customers/:id/selfie"

\* C30: evaluateLiveness calls createLivenessChallenge, getSelfie and
\* submitLivenessData in that order, each at most once; it submits the image
\* its getSelfie returned and the challenge id its createLivenessChallenge
\* returned; a failed call is its last and makes it throw, and it returns only
\* after all three succeeded.
C30_EvaluateLivenessInOrder ==
    \A s \in Slots :
        (~IsIdle(s) /\ Req(s).op = "evaluateLiveness")
        => LET calls == Req(s).calls
           IN /\ Len(calls) \in 1..3
              /\ \A i \in DOMAIN calls :
                   /\ calls[i].endpoint = <<CreateChallenge, GetSelfie, SubmitLivenessData>>[i]
                   /\ ~calls[i].out.ok
                         => (i = Len(calls) /\ Done(s) /\ Req(s).resp.handler = "threw")
              /\ Len(calls) = 3
                    => /\ calls[3].args.image = calls[2].out.data.image
                       /\ calls[3].args.challengeId = calls[1].out.data.challengeId
              /\ (Done(s) /\ Req(s).resp.handler = "returned")
                    => (Len(calls) = 3 /\ AllCallsOk(Req(s))
                        /\ Req(s).resp.value.status = calls[3].out.data.status)
              /\ (Done(s) /\ AllCallsOk(Req(s))) => Req(s).resp.handler = "returned"

\* C30 witness: one evaluation has returned after its three calls, and another,
\* given a different selfie, has thrown at its submission.
C30_Witness ==
    \E s, t \in Slots :
        /\ Answered(s, "evaluateLiveness") /\ Req(s).resp.handler = "returned"
        /\ Answered(t, "evaluateLiveness") /\ Len(Req(t).calls) = 3
        /\ Req(t).resp.handler = "threw"
        /\ Req(t).calls[2].out.data.image # Req(s).calls[2].out.data.image

====
